---------------------------- MODULE Spec2Model ----------------------------
(***************************************************************************)
(* Grid-Based-Pathplaner: VectorGrid (src/vectorGrid.py), GraphGrid        *)
(* (src/GraphGrid.py) and the call sites of main (src/main.py).            *)
(*                                                                         *)
(* Geometry.  Boundaries, cells and obstacles are axis-parallel rectangles *)
(* (shapely box); rotations are multiples of 90 degrees, so rectangles     *)
(* stay rectangles.  The boundary is kept in the source's units, a cell    *)
(* or obstacle geometry in HALF units (coordinate * 2) so that a rotation  *)
(* about a half-integer centroid is exact, and a centroid or query point   *)
(* in QUARTER units (coordinate * 4).  A rectangle may be degenerate (a    *)
(* segment or a point), as gpd.clip leaves it.                             *)
(***************************************************************************)
EXTENDS Integers, Sequences, FiniteSets, TLC

VARIABLES
    built,       \* a VectorGrid has been constructed (main.py:94 returned)
    polygon,     \* VectorGrid.polygon: the boundary rectangle, source units
    cell_size,   \* VectorGrid.cell_size
    rotation,    \* VectorGrid.rotation: <<>> is None, <<deg>> otherwise
    obstacle,    \* VectorGrid.obstacle: <<>> is None, <<set of rects>> otherwise
    grid,        \* VectorGrid.grid: sequence of rows [geometry, passable, id]
    graph,       \* GraphGrid.graph: <<>> before GraphGrid(grid), <<G>> after
    start_id,    \* GraphGrid.start_id: <<>> is None
    end_id,      \* GraphGrid.end_id:   <<>> is None
    path,        \* GraphGrid.path:     <<>> is None, <<p>> otherwise
    last,        \* the last call: its name, arguments, return value or exception
    uncaught,    \* the exception that left main uncaught ("" while running)
    nops         \* number of grid-mutating calls made so far

vars == <<built, polygon, cell_size, rotation, obstacle, grid,
          graph, start_id, end_id, path, last, uncaught, nops>>

None == <<>>
Some(v) == <<v>>

(***************************** bounds and inputs ***************************)
MaxOps == 3          \* grid-mutating calls explored after construction
MaxCellSize == 3     \* cell sizes offered are -1 .. MaxCellSize
MaxRefine == 2       \* refining calls explored before a path search
MaxId == 5           \* largest id offered to find_path

Rect(a, b, c, d) == [x0 |-> a, y0 |-> b, x1 |-> c, y1 |-> d]

\* boundary polygons (source units): a 3 x 1 strip and a unit square off the origin
Boundaries == { Rect(0, 0, 3, 1), Rect(1, 1, 2, 2) }

CellSizes == (-1) .. MaxCellSize

Rotations == { None, Some(0), Some(90) }

\* obstacle sets (half units): none given, an empty collection, a band across
\* the strip at x in [1.5, 2.5], the band and a block at [0, 0.5] x [0, 0.5]
Band == Rect(3, -4, 5, 8)
Block == Rect(0, 0, 1, 1)
Obstacles == { None, Some({}), Some({ Band }), Some({ Band, Block }) }

(******************************* geometry **********************************)
Min(a, b) == IF a <= b THEN a ELSE b
Max(a, b) == IF a >= b THEN a ELSE b

\* a source-unit rectangle in half units
Dbl(r) == Rect(2 * r.x0, 2 * r.y0, 2 * r.x1, 2 * r.y1)

\* shapely intersects on closed rectangles: touching counts
Intersects(a, b) ==
    /\ a.x0 <= b.x1 /\ b.x0 <= a.x1
    /\ a.y0 <= b.y1 /\ b.y0 <= a.y1

\* shapely intersection of two intersecting rectangles
Intersection(a, b) ==
    Rect(Max(a.x0, b.x0), Max(a.y0, b.y0), Min(a.x1, b.x1), Min(a.y1, b.y1))

\* geometry.centroid, in quarter units
Centroid(g) == <<g.x0 + g.x1, g.y0 + g.y1>>

\* polygon.centroid of the boundary, in half units
PolygonCentroid(p) == <<p.x0 + p.x1, p.y0 + p.y1>>

\* one quarter turn counter-clockwise about origin c (half units)
Rot90(g, c) ==
    Rect(c[1] - (g.y1 - c[2]), c[2] + (g.x0 - c[1]),
         c[1] - (g.y0 - c[2]), c[2] + (g.x1 - c[1]))

\* shapely.affinity.rotate(g, angle, origin, use_radians=False), angle a
\* multiple of 90 degrees, positive counter-clockwise
RECURSIVE RotateTurns(_, _, _)
RotateTurns(g, k, c) ==
    IF k = 0 THEN g ELSE RotateTurns(Rot90(g, c), k - 1, c)

RotateGeom(g, angle, c) == RotateTurns(g, (angle \div 90) % 4, c)

\* largest k with 4*k*k <= n, and smallest k with 4*k*k >= n:
\* floor and ceiling of sqrt(n)/2
FloorHalfSqrt(n) == CHOOSE k \in 0..n : 4*k*k <= n /\ 4*(k+1)*(k+1) > n
CeilHalfSqrt(n)  == CHOOSE k \in 0..n : 4*k*k >= n /\ (k = 0 \/ 4*(k-1)*(k-1) < n)

\* int(b - sqrt(n)/2) and int(b + sqrt(n)/2): Python int() truncates towards 0
IntMinus(b, n) ==
    IF b >= 0 /\ 4*b*b >= n THEN b - CeilHalfSqrt(n) ELSE b - FloorHalfSqrt(n)
IntPlus(b, n) ==
    IF b >= 0 \/ 4*b*b <= n THEN b + FloorHalfSqrt(n) ELSE b + CeilHalfSqrt(n)

\* a range that includes its stop value
RECURSIVE PyRange_inclusive(_, _, _)
PyRange_inclusive(a, b, step) ==
    IF (step > 0 /\ a <= b) \/ (step < 0 /\ a >= b)
    THEN <<a>> \o PyRange_inclusive(a + step, b, step)
    ELSE <<>>

\* list(range(a, b, step)), step # 0
RECURSIVE PyRange(_, _, _)
PyRange(a, b, step) ==
    IF (step > 0 /\ a < b) \/ (step < 0 /\ a > b)
    THEN <<a>> \o PyRange(a + step, b, step)
    ELSE <<>>


(******************************* VectorGrid ********************************)
\* rows of a GeoDataFrame column re-assigned by  grid['id'] = range(len(grid))
Reindex(rows) ==
    [i \in 1..Len(rows) |-> [rows[i] EXCEPT !.id = i - 1]]

\* any(cell.intersects(obstacle) for obstacle in self.obstacle.geometry)
HitsObstacle(geom, obs) == \E o \in obs : Intersects(geom, o)

\* the 'passable' column computed from an optional obstacle set
PassableOf(geom, obst) ==
    IF obst # None THEN ~HitsObstacle(geom, obst[1]) ELSE TRUE

\* squared centroid-to-vertex distance times 4: buffer = sqrt(BufferSq4(p)) / 2
BufferSq4(p) == (p.x1 - p.x0) * (p.x1 - p.x0) + (p.y1 - p.y0) * (p.y1 - p.y0)

\* int() of the bounds of polygon.buffer(buffer)
IntMinX(p) == IntMinus(p.x0, BufferSq4(p))
IntMinY(p) == IntMinus(p.y0, BufferSq4(p))
IntMaxX(p) == IntPlus(p.x1, BufferSq4(p))
IntMaxY(p) == IntPlus(p.y1, BufferSq4(p))

XCoords(p, cs) == PyRange(IntMinX(p), IntMaxX(p), cs)
YCoords(p, cs) == PyRange(IntMinY(p), IntMaxY(p), cs)

\* box(x, y, x + cell_size, y + cell_size), in half units
CellBox(x, y, cs) == Rect(2 * x, 2 * y, 2 * (x + cs), 2 * (y + cs))

\* grid_polys: for x in x_coords: for y in y_coords: append(box(...))
GridPolys(p, cs) ==
    LET xs == XCoords(p, cs)
        ys == YCoords(p, cs)
        ny == Len(ys)
    IN  [i \in 1..(Len(xs) * ny) |->
            CellBox(xs[((i - 1) \div ny) + 1], ys[((i - 1) % ny) + 1], cs)]

\* VectorGrid.create_vector_grid, for cell_size # 0
create_vector_grid(p, cs, rot, obst) ==
    LET polys == GridPolys(p, cs)
        geoms == IF rot # None
                 THEN [i \in 1..Len(polys) |->
                          RotateGeom(polys[i], rot[1], PolygonCentroid(p))]
                 ELSE polys
    IN  [i \in 1..Len(geoms) |->
            [geometry |-> geoms[i],
             passable |-> PassableOf(geoms[i], obst),
             id       |-> i - 1]]

\* the rows whose geometry meets the boundary, in order
MeetsBoundary(rows, p) ==
    SelectSeq(rows, LAMBDA r : Intersects(r.geometry, Dbl(p)))

\* gpd.clip(self.grid, self.polygon): rows meeting the boundary, each cut to it
ClipRows(rows, p) ==
    LET kept == MeetsBoundary(rows, p)
    IN  [i \in 1..Len(kept) |->
            [kept[i] EXCEPT !.geometry = Intersection(kept[i].geometry, Dbl(p))]]

\* VectorGrid.clip
clip(rows, p) == Reindex(ClipRows(rows, p))

\* intersect without its second statement: the surviving rows keep their ids
intersect_stale_ids(rows, p) == MeetsBoundary(rows, p)

\* VectorGrid.intersect
intersect(rows, p) ==
    Reindex(MeetsBoundary(rows, p))

\* VectorGrid.add_obstacle: recompute 'passable' against the new obstacle set
add_obstacle(rows, obs) ==
    [i \in 1..Len(rows) |->
        [rows[i] EXCEPT !.passable = ~HitsObstacle(rows[i].geometry, obs)]]

\* VectorGrid.clear_obstacle
clear_obstacle(rows) ==
    [i \in 1..Len(rows) |-> [rows[i] EXCEPT !.passable = TRUE]]

\* VectorGrid.rotate: every geometry turned by the new angle about the
\* boundary centroid; 'passable' and 'id' are left as they are
rotate(rows, angle, p) ==
    [i \in 1..Len(rows) |->
        [rows[i] EXCEPT !.geometry =
            RotateGeom(rows[i].geometry, angle, PolygonCentroid(p))]]


\* the centroids of all rows, the 'passable' filter forgotten
PassableCentroids_all(rows) ==
    [i \in 1..Len(rows) |-> Centroid(rows[i].geometry)]

\* self.grid[self.grid['passable']]['geometry'].centroid: the centroids of
\* the passable rows, in row order
PassableCentroids(rows) ==
    LET kept == SelectSeq(rows, LAMBDA r : r.passable)
    IN  [i \in 1..Len(kept) |-> Centroid(kept[i].geometry)]

SqDist(a, b) == (a[1] - b[1]) * (a[1] - b[1]) + (a[2] - b[2]) * (a[2] - b[2])

\* lexicographic order of coordinates: x, then y
CoordLess(a, b) == a[1] < b[1] \/ (a[1] = b[1] /\ a[2] < b[2])

\* nearest_points(point, multipoint)[1], multipoint = centroids.unary_union.
\* GEOS keeps the first point of the MultiPoint at minimum distance; the
\* union lists the points either as given (row order) or sorted by
\* coordinate, by library version: both outcomes are possible.
NearestPoints(pt, pts) ==
    LET near == { i \in 1..Len(pts) :
                    \A j \in 1..Len(pts) : SqDist(pt, pts[i]) <= SqDist(pt, pts[j]) }
    IN  { pts[i] : i \in { k \in near :
            \/ \A j \in near : k <= j
            \/ \A j \in near : pts[j] # pts[k] => CoordLess(pts[k], pts[j]) } }

\* self.grid[self.grid['geometry'].centroid == nearest]['id'].values[0]:
\* the id of the first row, passable or not, whose centroid is that point
FirstIdAt(rows, nearest) ==
    LET hits == SelectSeq(rows, LAMBDA r : Centroid(r.geometry) = nearest)
    IN  hits[1].id

(******************************** GraphGrid ********************************)
\* grid_expanded geometry = geometry.buffer(buffer_distance), GraphGrid.py:45
buffer_distance == 1

\* a.intersects(b.buffer(d)): the gap between the rectangles is at most d
\* (half units: the gap is compared with 2 * d)
WithinBuffer(a, b, d) ==
    LET gx == Max(0, Max(b.x0 - a.x1, a.x0 - b.x1))
        gy == Max(0, Max(b.y0 - a.y1, a.y0 - b.y1))
    IN  gx * gx + gy * gy <= (2 * d) * (2 * d)

\* integer square root: the largest k in lo..hi with k * k <= n
RECURSIVE ISqrtIn(_, _, _)
ISqrtIn(n, lo, hi) ==
    IF lo >= hi THEN lo
    ELSE LET mid == (lo + hi + 1) \div 2
         IN  IF mid * mid <= n THEN ISqrtIn(n, mid, hi) ELSE ISqrtIn(n, lo, mid - 1)

ISqrt(n) == ISqrtIn(n, 0, Min(n, 46340))

\* centroid.distance(centroid): a float in the source, here a fixed-point
\* number, the distance in units of 1/400 rounded down
Distance(c1, c2) == ISqrt(10000 * SqDist(c1, c2))

\* the ids of the passable rows: G.add_node(row['id'], ...) if row['passable']
PassableIds(rows) == { rows[i].id : i \in { j \in 1..Len(rows) : rows[j].passable } }

\* G.nodes[id]['geometry']: the geometry stored with the node
NodeGeometry(rows, id) ==
    LET i == CHOOSE j \in 1..Len(rows) : rows[j].passable /\ rows[j].id = id
    IN  rows[i].geometry

\* sjoin(self.grid, grid_expanded, op='intersects'): pairs (id_left, id_right)
Joined(rows) ==
    { <<rows[i].id, rows[j].id>> : <<i, j>> \in
        { ij \in (1..Len(rows)) \X (1..Len(rows)) :
            WithinBuffer(rows[ij[1]].geometry, rows[ij[2]].geometry, buffer_distance) } }

\* the edge loop without  cell_id != neighbor_id
AddedEdges_self(rows) ==
    { e \in Joined(rows) :
        e[1] \in PassableIds(rows) /\ e[2] \in PassableIds(rows) }

\* the pairs for which G.add_edge(cell_id, neighbor_id, ...) is called
AddedEdges(rows) ==
    { e \in Joined(rows) :
        /\ e[1] \in PassableIds(rows)
        /\ e[1] # e[2]
        /\ e[2] \in PassableIds(rows) }

\* GraphGrid.create_graph: an undirected nx.Graph, its adjacency kept in both
\* directions, each edge weighted by the distance between the two centroids
create_graph(rows) ==
    LET added == AddedEdges(rows)
        adj   == added \cup { <<e[2], e[1]>> : e \in added }
    IN  [nodes  |-> PassableIds(rows) \cup { e[2] : e \in added },
         weight |-> [e \in adj |->
                       Distance(Centroid(NodeGeometry(rows, e[1])),
                                Centroid(NodeGeometry(rows, e[2])))]]

Neighbors(G, u) == { v \in G.nodes : <<u, v>> \in DOMAIN G.weight }

\* a queue popped in insertion order, whatever the priority
MinEntry_fifo(queue) ==
    CHOOSE e \in queue : \A f \in queue : e.cnt <= f.cnt

\* heappop order: by priority, then by insertion counter
MinEntry(queue) ==
    CHOOSE e \in queue : \A f \in queue :
        e.prio < f.prio \/ (e.prio = f.prio /\ e.cnt <= f.cnt)

\* path.append(node); node = explored[node], until None (-1); then reversed
RECURSIVE PathBack(_, _)
PathBack(explored, node) ==
    IF node = -1 THEN <<>> ELSE PathBack(explored, explored[node]) \o <<node>>

\* for neighbor, w in G[curnode].items(): the relaxation of astar_path, over
\* the neighbours still to visit (in ascending id order); st holds the queue,
\* the enqueued costs (-1: not enqueued) and the counter
RECURSIVE Relax(_, _, _, _, _)
Relax(G, cur, dist, todo, st) ==
    IF todo = {} THEN st
    ELSE LET nb    == CHOOSE v \in todo : \A w \in todo : v <= w
             ncost == dist + G.weight[<<cur, nb>>]
             skip  == st.enqueued[nb] # -1 /\ st.enqueued[nb] <= ncost
             st2   == IF skip THEN st
                      ELSE [st EXCEPT
                              !.enqueued[nb] = ncost,
                              !.queue = @ \cup { [prio |-> ncost, cnt |-> st.c,
                                                  node |-> nb, dist |-> ncost,
                                                  parent |-> cur] },
                              !.c = @ + 1]
         IN  Relax(G, cur, dist, todo \ {nb}, st2)

\* the main loop of nx.astar_path with heuristic 0; explored[n] is the parent
\* of n (-1: None, -2: not explored).  <<>> stands for NetworkXNoPath.
RECURSIVE AStarLoop(_, _, _)
AStarLoop(G, target, st) ==
    IF st.queue = {} THEN <<>>
    ELSE
      LET e    == MinEntry(st.queue)
          rest == [st EXCEPT !.queue = @ \ {e}]
      IN  IF e.node = target
          THEN PathBack(st.explored, e.parent) \o <<e.node>>
          ELSE IF st.explored[e.node] # -2
                  /\ (st.explored[e.node] = -1 \/ st.enqueued[e.node] < e.dist)
          THEN AStarLoop(G, target, rest)
          ELSE AStarLoop(G, target,
                  Relax(G, e.node, e.dist, Neighbors(G, e.node),
                        [rest EXCEPT !.explored[e.node] = e.parent]))

\* nx.astar_path(self.graph, start_id, end_id, weight='weight')
astar_path(G, source, target) ==
    AStarLoop(G, target,
        [queue    |-> { [prio |-> 0, cnt |-> 0, node |-> source, dist |-> 0,
                         parent |-> -1] },
         enqueued |-> [n \in G.nodes |-> -1],
         explored |-> [n \in G.nodes |-> -2],
         c        |-> 1])

(****************************** the calls **********************************)
Call(op, arg, ret, exc, excId) ==
    [op |-> op, arg |-> arg, ret |-> ret, exc |-> exc, excId |-> excId]

Running == uncaught = ""

GraphVars == <<graph, start_id, end_id, path>>
GridFields == <<polygon, cell_size, rotation, obstacle>>

Init ==
    /\ built = FALSE
    /\ polygon = Rect(0, 0, 0, 0)
    /\ cell_size = 0
    /\ rotation = None
    /\ obstacle = None
    /\ grid = <<>>
    /\ graph = None
    /\ start_id = None
    /\ end_id = None
    /\ path = None
    /\ last = Call("start", <<>>, None, "", None)
    /\ uncaught = ""
    /\ nops = 0

\* main.py:94  VectorGrid(boundary, cell_size, rotation, obstacles).
\* range() with step 0 raises ValueError, which main does not catch.
Construct(p, cs, rot, obst) ==
    /\ Running /\ ~built
    /\ polygon' = p
    /\ cell_size' = cs
    /\ rotation' = rot
    /\ obstacle' = obst
    /\ IF cs = 0
       THEN /\ built' = FALSE
            /\ grid' = grid
            /\ uncaught' = "ValueError"
            /\ last' = Call("VectorGrid", <<cs>>, None, "ValueError", None)
       ELSE /\ built' = TRUE
            /\ grid' = create_vector_grid(p, cs, rot, obst)
            /\ uncaught' = uncaught
            /\ last' = Call("VectorGrid", <<cs>>, None, "", None)
    /\ UNCHANGED <<GraphVars, nops>>

Mutable == Running /\ built /\ nops < MaxOps

Clip ==
    /\ Mutable
    /\ grid' = clip(grid, polygon)
    /\ last' = Call("clip", <<>>, None, "", None)
    /\ nops' = nops + 1
    /\ UNCHANGED <<built, GridFields, GraphVars, uncaught>>

Intersect ==
    /\ Mutable
    /\ grid' = intersect(grid, polygon)
    /\ last' = Call("intersect", <<>>, None, "", None)
    /\ nops' = nops + 1
    /\ UNCHANGED <<built, GridFields, GraphVars, uncaught>>

Rotate(angle) ==
    /\ Mutable
    /\ rotation' = Some(angle)
    /\ grid' = rotate(grid, angle, polygon)
    /\ last' = Call("rotate", <<angle>>, None, "", None)
    /\ nops' = nops + 1
    /\ UNCHANGED <<built, polygon, cell_size, obstacle, GraphVars, uncaught>>

AddObstacle(obs) ==
    /\ Mutable
    /\ obstacle' = Some(obs)
    /\ grid' = add_obstacle(grid, obs)
    /\ last' = Call("add_obstacle", <<>>, None, "", None)
    /\ nops' = nops + 1
    /\ UNCHANGED <<built, polygon, cell_size, rotation, GraphVars, uncaught>>

ClearObstacle ==
    /\ Mutable
    /\ obstacle' = None
    /\ grid' = clear_obstacle(grid)
    /\ last' = Call("clear_obstacle", <<>>, None, "", None)
    /\ nops' = nops + 1
    /\ UNCHANGED <<built, polygon, cell_size, rotation, GraphVars, uncaught>>

\* query points (quarter units): every cell's centroid and every cell's corners
QueryPoints(rows) ==
    UNION { { Centroid(rows[i].geometry),
              <<2 * rows[i].geometry.x0, 2 * rows[i].geometry.y0>>,
              <<2 * rows[i].geometry.x1, 2 * rows[i].geometry.y1>> }
            : i \in 1..Len(rows) }
    \cup { <<0, 0>> }

\* main.py:116/123  vector_grid.closest_cell_id(coordinates), outside any try.
\* With no passable cell the MultiPoint is empty (or None) and nearest_points
\* raises: ValueError or AttributeError, by library version.
ClosestCellId(pt) ==
    /\ Running /\ built
    /\ IF PassableCentroids(grid) = <<>>
       THEN \E e \in {"ValueError", "AttributeError"} :
               /\ uncaught' = e
               /\ last' = Call("closest_cell_id", pt, None, e, None)
       ELSE \E nearest \in NearestPoints(pt, PassableCentroids(grid)) :
               /\ uncaught' = uncaught
               /\ last' = Call("closest_cell_id", pt,
                               Some(FirstIdAt(grid, nearest)), "", None)
    /\ UNCHANGED <<built, GridFields, grid, GraphVars, nops>>

\* find_path testing the start id only
UnknownNode_start_only(G, s, e) ==
    IF s \notin G.nodes THEN Some(s) ELSE None

\* the two membership tests of find_path: the id named by the ValueError that
\* is raised, start first; None when both ids are nodes
UnknownNode(G, s, e) ==
    IF s \notin G.nodes THEN Some(s)
    ELSE IF e \notin G.nodes THEN Some(e)
    ELSE None

\* main.py:103  GraphGrid(grid): GraphGrid.__init__
CreateGraph ==
    /\ Running /\ built /\ graph = None
    /\ graph' = Some(create_graph(grid))
    /\ start_id' = None
    /\ end_id' = None
    /\ path' = None
    /\ last' = Call("GraphGrid", <<>>, None, "", None)
    /\ UNCHANGED <<built, GridFields, grid, uncaught, nops>>

\* main.py:157-165  try: path = graph_grid.find_path(start_id, end_id)
\*                  except ValueError as e: print(e)
\* GraphGrid.find_path raises ValueError naming the id that is no node, which
\* main catches; nx.astar_path raises NetworkXNoPath, no ValueError, after
\* start_id and end_id were stored, and nothing catches it.
FindPath(s, e) ==
    /\ Running /\ graph # None
    /\ LET G == graph[1] IN
       IF UnknownNode(G, s, e) # None
       THEN /\ last' = Call("find_path", <<s, e>>, None, "ValueError",
                            UnknownNode(G, s, e))
            /\ UNCHANGED <<start_id, end_id, path, uncaught>>
       ELSE /\ start_id' = Some(s)
            /\ end_id' = Some(e)
            /\ \E found \in { astar_path(G, s, e) } :
                  IF found = <<>>
                  THEN /\ path' = path
                       /\ uncaught' = "NetworkXNoPath"
                       /\ last' = Call("find_path", <<s, e>>, None,
                                       "NetworkXNoPath", None)
                  ELSE /\ path' = Some(found)
                       /\ uncaught' = uncaught
                       /\ last' = Call("find_path", <<s, e>>, Some(found), "", None)
    /\ UNCHANGED <<built, GridFields, grid, graph, nops>>

\* the life of a VectorGrid: construction, the in-place operations in any
\* order, and the point lookup
Next ==
    \/ \E p \in Boundaries, cs \in CellSizes, rot \in Rotations, obst \in Obstacles :
          Construct(p, cs, rot, obst)
    \/ Clip
    \/ Intersect
    \/ \E angle \in {90, 180} : Rotate(angle)
    \/ \E obst \in Obstacles : obst # None /\ AddObstacle(obst[1])
    \/ ClearObstacle
    \/ \E pt \in QueryPoints(grid) : ClosestCellId(pt)

Spec == Init /\ [][Next]_vars

\* the ids offered to find_path: the first cells and, on a small grid, the
\* first id that names no cell
QueryIds == 0..Min(Len(grid), MaxId)

\* main's pipeline: the grid, optionally intersected and clipped, then the
\* graph, then path searches on it
NextPath ==
    \/ \E p \in Boundaries, cs \in CellSizes, rot \in Rotations, obst \in Obstacles :
          Construct(p, cs, rot, obst)
    \/ graph = None /\ nops < MaxRefine /\ Intersect
    \/ graph = None /\ nops < MaxRefine /\ Clip
    \/ CreateGraph
    \/ \E s \in QueryIds, e \in QueryIds : FindPath(s, e)

SpecPath == Init /\ [][NextPath]_vars

(***************************************************************************)
(*                              The claims                                 *)
(***************************************************************************)

\* C1: after construction and after any sequence of clip, intersect, rotate,
\* add_obstacle and clear_obstacle, the ids of the cells are pairwise
\* distinct and are exactly 0..n-1, in the order of the rows.
C1_IdsDenseInOrder ==
    built =>
      /\ \A i \in 1..Len(grid) : grid[i].id = i - 1
      /\ \A i, j \in 1..Len(grid) : i # j => grid[i].id # grid[j].id
      /\ { grid[i].id : i \in 1..Len(grid) } = 0..(Len(grid) - 1)

\* C1 witness: intersect has dropped some rows of the grid and kept others
C1_Witness ==
    /\ built /\ last.op = "intersect"
    /\ Len(grid) > 0
    /\ Len(grid) < Len(GridPolys(polygon, cell_size))

\* C2: the graph built by create_graph has as nodes exactly the ids of the
\* cells that were passable when it was built, has no self-loop, and every
\* edge joins two distinct nodes of that set.  (No operation changes the grid
\* once the graph is built under SpecPath, so grid is the grid at build time.)
C2_GraphOverPassableCells ==
    graph # None =>
      LET G == graph[1] IN
        /\ G.nodes = { grid[i].id : i \in { j \in 1..Len(grid) : grid[j].passable } }
        /\ \A e \in DOMAIN G.weight :
              /\ e[1] # e[2]
              /\ e[1] \in G.nodes /\ e[2] \in G.nodes
              /\ \E i, j \in 1..Len(grid) :
                    /\ grid[i].id = e[1] /\ grid[i].passable
                    /\ grid[j].id = e[2] /\ grid[j].passable

\* C2 witness: a graph with edges, built from a grid in which an impassable
\* cell lies within the tolerance of a passable one
C2_Witness ==
    /\ graph # None
    /\ DOMAIN graph[1].weight # {}
    /\ \E i, j \in 1..Len(grid) :
          /\ grid[i].passable /\ ~grid[j].passable
          /\ WithinBuffer(grid[i].geometry, grid[j].geometry, buffer_distance)

\* the weight of a sequence of nodes: the sum of its edges' weights
RECURSIVE PathWeight(_, _)
PathWeight(G, p) ==
    IF Len(p) <= 1 THEN 0
    ELSE G.weight[<<p[1], p[2]>>] + PathWeight(G, Tail(p))

IsPath(G, p) ==
    /\ Len(p) >= 1
    /\ \A i \in 1..Len(p) : p[i] \in G.nodes
    /\ \A i \in 1..(Len(p) - 1) : <<p[i], p[i + 1]>> \in DOMAIN G.weight

\* one round of relaxation, node by node: the least weight known for v is
\* lowered to the least d[u] + weight(u, v) over its neighbours u (-1: none)
RECURSIVE RelaxRound(_, _, _, _)
RelaxRound(G, d, acc, todo) ==
    IF todo = {} THEN acc
    ELSE LET v   == CHOOSE x \in todo : TRUE
             all == { d[u] + G.weight[<<u, v>>] :
                        u \in { w \in G.nodes : <<w, v>> \in DOMAIN G.weight
                                                /\ d[w] # -1 } }
                    \cup (IF d[v] # -1 THEN {d[v]} ELSE {})
             new == IF all = {} THEN -1
                    ELSE CHOOSE m \in all : \A x \in all : m <= x
         IN  RelaxRound(G, d, [acc EXCEPT ![v] = new], todo \ {v})

\* relaxation rounds repeated until nothing changes (Bellman-Ford)
RECURSIVE LeastWeights(_, _)
LeastWeights(G, d) ==
    CHOOSE r \in { IF \A v \in G.nodes : n[v] = d[v] THEN d ELSE LeastWeights(G, n) :
                     n \in { RelaxRound(G, d, d, G.nodes) } } : TRUE

\* the least weight of any path from s to e in G; -1 when there is none
LeastWeight(G, s, e) ==
    LeastWeights(G, [[v \in G.nodes |-> -1] EXCEPT ![s] = 0])[e]

Connected(G, s, e) == LeastWeight(G, s, e) # -1

\* C3: for connected nodes s and e, find_path returns a sequence that begins
\* with s, ends with e, joins consecutive ids by graph edges and weighs no
\* more than any other path from s to e; for s = e it is <<s>>, of weight 0.
C3_ShortestPath ==
    (last.op = "find_path" /\ graph # None) =>
      LET G == graph[1]
          s == last.arg[1]
          e == last.arg[2]
      IN  (s \in G.nodes /\ e \in G.nodes) =>
            \A least \in { LeastWeight(G, s, e) } :
              least # -1 =>
                /\ last.exc = ""
                /\ last.ret # None
                /\ path = last.ret
                /\ LET p == last.ret[1] IN
                     /\ IsPath(G, p)
                     /\ p[1] = s
                     /\ p[Len(p)] = e
                     /\ PathWeight(G, p) = least
                     /\ (s = e => p = <<s>> /\ PathWeight(G, p) = 0)

\* C3 witness: a returned path of three or more cells in a graph where a
\* path of as many cells between the same two cells weighs more
C3_Witness ==
    /\ last.op = "find_path" /\ last.exc = "" /\ last.ret # None
    /\ Len(last.ret[1]) = 3
    /\ LET G == graph[1]
           p == last.ret[1]
       IN  \E m \in G.nodes :
              /\ IsPath(G, <<p[1], m, p[3]>>)
              /\ PathWeight(G, <<p[1], m, p[3]>>) > PathWeight(G, p)

\* C4: find_path with a start or end id that is no node of the graph (no such
\* cell, or an impassable one) fails with the unknown-node error (ValueError)
\* naming the offending id, returns no path and stores none.
C4_UnknownNodeNamed ==
    (last.op = "find_path" /\ graph # None) =>
      LET G == graph[1]
          s == last.arg[1]
          e == last.arg[2]
      IN  (s \notin G.nodes \/ e \notin G.nodes) =>
            /\ last.exc = "ValueError"
            /\ last.ret = None
            /\ last.excId # None
            /\ last.excId[1] \in {s, e}
            /\ last.excId[1] \notin G.nodes
            /\ (s \notin G.nodes => last.excId[1] = s)

\* C4 witness: the end id names an impassable cell of the grid, the start id
\* a node
C4_Witness ==
    /\ last.op = "find_path" /\ last.exc = "ValueError"
    /\ last.arg[1] \in graph[1].nodes
    /\ last.excId = Some(last.arg[2])
    /\ \E i \in 1..Len(grid) : grid[i].id = last.arg[2] /\ ~grid[i].passable

\* C5 (the claim as stated): find_path between two nodes of different
\* connected components fails with a no-path error, distinct from the
\* unknown-node error, that the caller (main) recovers from; it returns no
\* empty, partial or None result.
C5_NoPathRecoverable ==
    (last.op = "find_path" /\ graph # None) =>
      LET G == graph[1]
          s == last.arg[1]
          e == last.arg[2]
      IN  (s \in G.nodes /\ e \in G.nodes /\ ~Connected(G, s, e)) =>
            /\ last.exc # ""
            /\ last.exc # "ValueError"
            /\ last.ret = None
            /\ uncaught = ""

\* the rows of the grid that are passable, and among them those whose
\* centroid is nearest to the point pt
PassableRows == { i \in 1..Len(grid) : grid[i].passable }
NearestRows(pt) ==
    { i \in PassableRows : \A j \in PassableRows :
        SqDist(pt, Centroid(grid[i].geometry)) <= SqDist(pt, Centroid(grid[j].geometry)) }

\* C6 (the claim as stated): on a grid with a passable cell, closest_cell_id
\* returns the id of a passable cell whose centroid is nearest to the point,
\* the lowest such id when several are equally near.
C6_LowestIdNearest ==
    (last.op = "closest_cell_id" /\ PassableRows # {}) =>
      /\ last.exc = ""
      /\ \E i \in NearestRows(last.arg) :
            /\ last.ret = Some(grid[i].id)
            /\ \A j \in NearestRows(last.arg) : grid[i].id <= grid[j].id

\* C6 (amended): on a grid with a passable cell, closest_cell_id returns the
\* id of a passable cell whose centroid is at minimum distance from the point
\* among the passable cells (one of them when several are equally near); a
\* query at the centroid of a passable cell returns that cell's id.
C6_NearestPassable ==
    (last.op = "closest_cell_id" /\ PassableRows # {}) =>
      /\ last.exc = ""
      /\ \E i \in NearestRows(last.arg) : last.ret = Some(grid[i].id)
      /\ \A i \in PassableRows :
            Centroid(grid[i].geometry) = last.arg => last.ret = Some(grid[i].id)

\* C6 witness: a lookup answered with a passable cell although an impassable
\* cell's centroid is strictly nearer to the point
C6_Witness ==
    /\ last.op = "closest_cell_id" /\ last.exc = "" /\ last.ret # None
    /\ \E i \in PassableRows, j \in 1..Len(grid) :
          /\ last.ret = Some(grid[i].id)
          /\ ~grid[j].passable
          /\ SqDist(last.arg, Centroid(grid[j].geometry))
               < SqDist(last.arg, Centroid(grid[i].geometry))

\* C7 (the claim as stated): on a grid without a passable cell the lookup
\* fails with an error handed to the caller, which goes on running; no cell
\* id and no None is returned.  (Stated for grids of a positive cell size,
\* whose cells are then all impassable.)
C7_NoPassableCellsReported ==
    (last.op = "closest_cell_id" /\ cell_size > 0 /\ PassableRows = {}) =>
      /\ last.exc # ""
      /\ last.ret = None
      /\ uncaught = ""

\* the grid that construction is to return: one full cell per position
FullGrid(p, cs) ==
    \A x \in { IntMinX(p) + k * cs : k \in 0..(IntMaxX(p) - IntMinX(p)) },
       y \in { IntMinY(p) + k * cs : k \in 0..(IntMaxY(p) - IntMinY(p)) } :
         (x < IntMaxX(p) /\ y < IntMaxY(p)) =>
            \E i \in 1..Len(grid) :
               RotateGeom(CellBox(x, y, cs),
                          IF rotation = None THEN 0 ELSE rotation[1],
                          PolygonCentroid(p)) = grid[i].geometry

\* C8 (the claim as stated): construction with cell_size <= 0 fails with an
\* error and yields no grid; with cell_size > 0 it succeeds with the full grid.
C8_NonPositiveCellSizeRejected ==
    last.op = "VectorGrid" =>
      /\ cell_size <= 0 => (last.exc # "" /\ ~built)
      /\ cell_size > 0 => (last.exc = "" /\ built /\ Len(grid) > 0
                            /\ FullGrid(polygon, cell_size))

Unrotated == rotation = None \/ rotation = Some(0)

\* a cell lies inside the boundary's bounding box expanded by the buffer
\* sqrt(BufferSq4)/2 on every side (half units; x >= 2*x0 - sqrt(n) is
\* 2*x0 - x <= sqrt(n))
AtMostSqrt(v, n) == v <= 0 \/ v * v <= n
InExpandedBox(g, p) ==
    /\ AtMostSqrt(2 * p.x0 - g.x0, BufferSq4(p))
    /\ AtMostSqrt(2 * p.y0 - g.y0, BufferSq4(p))
    /\ AtMostSqrt(g.x1 - 2 * p.x1, BufferSq4(p))
    /\ AtMostSqrt(g.y1 - 2 * p.y1, BufferSq4(p))

\* every half-unit square of the boundary lies in some cell
CoversBoundary(rows, p) ==
    \A a \in (2 * p.x0)..(2 * p.x1 - 1), b \in (2 * p.y0)..(2 * p.y1 - 1) :
       \E i \in 1..Len(rows) :
          /\ rows[i].geometry.x0 <= a /\ a + 1 <= rows[i].geometry.x1
          /\ rows[i].geometry.y0 <= b /\ b + 1 <= rows[i].geometry.y1

C10_PassableMatchesObstacles ==
    built =>
      \A i \in 1..Len(grid) :
         grid[i].passable =
            ~(obstacle # None /\ \E o \in obstacle[1] : Intersects(grid[i].geometry, o))

\* two distinct cells of the unrotated grid are neighbours when they share a
\* side or a corner
GridNeighbours(a, b) == a # b /\ Intersects(a, b)

\* C11 (the claim as stated): for a cell size > 0, on an unrotated grid that
\* was neither clipped nor intersected, create_graph puts an edge between two
\* distinct passable cells exactly when they share a side or a corner; cells
\* that are no neighbours are never connected.
C11_EdgesAreNeighbours ==
    (graph # None /\ cell_size > 0 /\ Unrotated /\ nops = 0) =>
      \A i \in PassableRows, j \in PassableRows :
         grid[i].id # grid[j].id =>
            (<<grid[i].id, grid[j].id>> \in DOMAIN graph[1].weight
               <=> GridNeighbours(grid[i].geometry, grid[j].geometry))

\* C12 (the claim as stated): after any sequence of find_path calls on one
\* GraphGrid, successful or failed, a stored path is the result of the most
\* recent request: it starts at the stored start_id and ends at the stored
\* end_id, so no earlier path is kept next to a later request's ids.
C12_PathOfLatestRequest ==
    (graph # None /\ path # None) =>
      /\ start_id # None /\ end_id # None
      /\ Len(path[1]) > 0
      /\ path[1][1] = start_id[1]
      /\ path[1][Len(path[1])] = end_id[1]
=============================================================================
